---- MODULE Spec2Model ----
(***************************************************************************)
(* A model of the feed reader of tabell/rss (src/rss.go, the latest        *)
(* revision; src/main.go holds two earlier revisions of the same program). *)
(*                                                                         *)
(* Spec        : update runs.  updateFeeds loads the feeds, starts one     *)
(*               goroutine per feed, each goroutine runs CheckNewArticles   *)
(*               and stores and indexes the new articles, and the main     *)
(*               goroutine waits on the WaitGroup.                         *)
(* SpecH       : Spec, with a history of the document each call fetched.   *)
(* SpecLive    : Spec, with the scheduling of the goroutines (fairness).   *)
(* SpecSearch  : one search.  searchArticles asks the index for the hits,  *)
(*               loads and scores the article of each hit, and sorts.      *)
(* SpecParse   : one call of attemptTimeParse on a list of layouts and a   *)
(*               date string.                                              *)
(*                                                                         *)
(* Time is a natural number; 0 is the zero time.Time{} of a feed that was  *)
(* never checked.  now is the last reading of the wall clock; a reading is *)
(* never earlier than the one before it.                                   *)
(***************************************************************************)
EXTENDS Naturals, Integers, Sequences, FiniteSets, TLC

\* ---------------------------------------------------------------- bounds
NumFeeds == 2
MaxTime == 3
MaxItems == 2
MaxCalls == 2
MaxFaults == 1
MaxRows == 2
MaxHits == 2
MaxScore == 2
MaxFormats == 2

\* NumFeeds  : rows of the feeds table, at most
\* MaxTime   : the clock stops here
\* MaxItems  : items of one fetched document, at most
\* MaxCalls  : calls of CheckNewArticles in one behaviour, at most
\* MaxFaults : failing storage writes in one behaviour, at most
\* MaxRows   : rows of the articles table when a search starts, at most
\* MaxHits   : hits of one search, at most
\* MaxScore  : the scores of the index are 1..MaxScore
\* MaxFormats: layouts in the list given to attemptTimeParse, at most

Feeds == 1..NumFeeds
Time  == 0..MaxTime

\* ------------------------------------------------- date strings, parsing
\* The layouts of dateFormats, in the order of the list.
dateFormats == <<"RFC1123", "RFC3339", "RFC1123Z", "RFC1123Z1">>

\* What a published-date string looks like, and the instant it denotes:
\*   named2  "Mon, 02 Jan 2006 15:04:05 MST"
\*   named1  "Mon, 2 Jan 2006 15:04:05 MST"
\*   num2    "Mon, 02 Jan 2006 15:04:05 -0700"
\*   num1    "Mon, 2 Jan 2006 15:04:05 -0700"
\*   iso     "2006-01-02T15:04:05Z"
\*   slash   "02/01/2006", which reads as 2 January or as 1 February
\*   garbage anything else
Syntaxes == {"named2", "named1", "num2", "num1", "iso", "slash", "garbage"}

\* The layouts: those of dateFormats, and "02/01/2006" (DMY) and
\* "01/02/2006" (MDY), which both take a slash date.
Layouts == {"RFC1123", "RFC3339", "RFC1123Z", "RFC1123Z1", "DMY", "MDY"}

\* time.Parse(layout, input): a two-digit day layout ("02") needs two
\* digits, a one-digit day layout ("2") takes one or two; "MST" takes a zone
\* name and "-0700" a numeric zone.  input.t is the instant of the string
\* (of a slash date: read day first); read month first it is another one.
timeParse(format, input) ==
    LET matches ==
          \/ format = "RFC1123"   /\ input.syntax = "named2"
          \/ format = "RFC3339"   /\ input.syntax = "iso"
          \/ format = "RFC1123Z"  /\ input.syntax = "num2"
          \/ format = "RFC1123Z1" /\ input.syntax \in {"num2", "num1"}
          \/ format \in {"DMY", "MDY"} /\ input.syntax = "slash"
    IN  IF matches
        THEN [ok |-> TRUE,
              t |-> IF format = "MDY" THEN input.t + 1 ELSE input.t]
        ELSE [ok |-> FALSE, t |-> 0]

\* As attemptFrom, but the loop goes on after a layout has parsed the input
\* and the last result is returned.
attemptFromLast(formats, i, input) ==
    LET S == {j \in i..Len(formats) : timeParse(formats[j], input).ok}
    IN  IF S = {} THEN [ok |-> FALSE, t |-> 0]
        ELSE timeParse(formats[CHOOSE j \in S : \A k \in S : k <= j], input)

\* The loop over the layouts, from the i-th on: the first result without an
\* error is returned; after the last layout, time.Time{} and an error.
RECURSIVE attemptFrom(_, _, _)
attemptFrom(formats, i, input) ==
    IF i > Len(formats) THEN [ok |-> FALSE, t |-> 0]
    ELSE LET r == timeParse(formats[i], input)
         IN  IF r.ok THEN r ELSE attemptFrom(formats, i + 1, input)

attemptTimeParse(formats, input) == attemptFrom(formats, 1, input)

\* ----------------------------------------------------------- feed items
\* The items of a feed document (gofeed.Item: Title, Published), newest
\* first.
Master ==
    << [title |-> "d", published |-> [syntax |-> "num1",    t |-> 2]],
       [title |-> "c", published |-> [syntax |-> "garbage", t |-> 0]],
       [title |-> "e", published |-> [syntax |-> "named1",  t |-> 1]],
       [title |-> "a", published |-> [syntax |-> "named2",  t |-> 1]],
       [title |-> "b", published |-> [syntax |-> "iso",     t |-> 1]] >>

\* The documents a fetch can return (rss.Items): the newest k items.
Docs == {SubSeq(Master, 1, k) : k \in 0..MaxItems}

\* ---------------------------------------------------------------- state
VARIABLES
    now,         \* the last reading of the wall clock, time.Now()
    dbFeeds,     \* storage: feed id -> LastCheckedTime of the row
    dbArticles,  \* storage: the article rows, row i has ID i
    index,       \* the bleve index: a set of [key, doc]
    mainPc,      \* position of updateFeeds
    feeds,       \* updateFeeds: the slice returned by LoadFeeds
    next,        \* updateFeeds: position of the range loop over feeds
    wg,          \* the sync.WaitGroup counter
    unit,        \* per feed: the goroutine's locals
    ret,         \* what updateFeeds returned
    calls,       \* number of CheckNewArticles calls started so far
    faults,      \* number of storage writes that failed so far
    prevCall,    \* history: per feed, the document the last call fetched
    searchPc,    \* position of searchArticles
    searchResults, \* searchArticles: searchResults.Hits
    hitNo,       \* searchArticles: position of the range loop over the hits
    sortedResults, \* searchArticles: the scored articles
    parsePc,     \* position of a call of attemptTimeParse
    formats,     \* attemptTimeParse: the layouts to try
    input,       \* attemptTimeParse: the date string
    parsedTime   \* attemptTimeParse: what it returned (time, error)

vars == <<now, dbFeeds, dbArticles, index, mainPc, feeds, next, wg, unit,
          ret, calls, faults, prevCall, searchPc, searchResults, hitNo,
          sortedResults, parsePc, formats, input, parsedTime>>

store == <<dbFeeds, dbArticles, index>>
main  == <<mainPc, feeds, next, ret>>
env   == <<now, faults>>
srch  == <<searchPc, searchResults, hitNo, sortedResults>>
prs   == <<parsePc, formats, input, parsedTime>>

NoArticle == [ID |-> 0, FeedID |-> 0, Title |-> "", Published |-> 0, Fetched |-> 0]

IdleUnit ==
    [pc          |-> "none",
     feed        |-> [ID |-> 0, LastCheckedTime |-> 0],
     checkTime   |-> 0,
     err         |-> FALSE,
     doc         |-> <<>>,
     newArticles |-> <<>>,
     k           |-> 0,
     article     |-> NoArticle]

\* No call of attemptTimeParse is looked at on its own.
NoParse ==
    /\ parsePc = "none"
    /\ formats = <<>>
    /\ input = [syntax |-> "garbage", t |-> 0]
    /\ parsedTime = [ok |-> FALSE, t |-> 0]

\* The program was not started with "search".
NoSearch ==
    /\ searchPc = "none"
    /\ searchResults = <<>>
    /\ hitNo = 0
    /\ sortedResults = <<>>

\* The feeds table holds 1..NumFeeds feeds that were never checked
\* (CreateFeeds stores LastCheckedTime: time.Time{}); no article is stored.
Init ==
    /\ now = 1
    /\ \E n \in 1..NumFeeds : dbFeeds = [f \in 1..n |-> 0]
    /\ dbArticles = <<>>
    /\ index = {}
    /\ mainPc = "idle"
    /\ feeds = <<>>
    /\ next = 1
    /\ wg = 0
    /\ unit = [f \in Feeds |-> IdleUnit]
    /\ ret = "unset"
    /\ calls = 0
    /\ faults = 0
    /\ prevCall = [on |-> FALSE, of |-> [f \in Feeds |-> [ok |-> FALSE, doc |-> <<>>]]]
    /\ NoSearch
    /\ NoParse

\* ---------------------------------------------------------------- clock
\* The values time.Now() can return: not earlier than the last reading.
Readings == now..MaxTime

\* ------------------------------------------------------ CheckNewArticles
\* The loop over rss.Items: an item whose date does not parse is skipped,
\* an item published after feed.LastCheckedTime becomes an Article.
\* t.After(u)
AfterOrEqual(t, u) == t >= u
After(t, u) == t > u

RECURSIVE newFrom(_, _, _, _)
newFrom(items, i, feed, checkTime) ==
    IF i > Len(items) THEN <<>>
    ELSE LET item    == items[i]
             pubDate == attemptTimeParse(dateFormats, item.published)
             rest    == newFrom(items, i + 1, feed, checkTime)
         IN  IF ~pubDate.ok THEN rest
             ELSE IF After(pubDate.t, feed.LastCheckedTime)
                  THEN <<[ID |-> 0, FeedID |-> 0, Title |-> item.title,
                          Published |-> pubDate.t, Fetched |-> checkTime]>>
                       \o rest
                  ELSE rest

\* As newArticlesOf, but a date that does not parse ends the whole batch.
newArticlesOrAbort(items, feed, checkTime) ==
    IF \E i \in 1..Len(items) :
          ~attemptTimeParse(dateFormats, items[i].published).ok
    THEN <<>>
    ELSE newFrom(items, 1, feed, checkTime)

newArticlesOf(items, feed, checkTime) == newFrom(items, 1, feed, checkTime)

\* As advancedFeed, but with the time at the end of the call.
advancedToNow(feed, checkTime) == [feed EXCEPT !.LastCheckedTime = now]

\* feed.LastCheckedTime = checkTime
advancedFeed(feed, checkTime) == [feed EXCEPT !.LastCheckedTime = checkTime]

\* As dbSave, but an update of every row (no WHERE clause).
dbSaveAll(rows, feed) == [g \in DOMAIN rows |-> feed.LastCheckedTime]

\* db.Save(&feed): the row of the feed takes the Feed value's fields.
dbSave(rows, feed) == [rows EXCEPT ![feed.ID] = feed.LastCheckedTime]

\* ------------------------------------------------------------ updateFeeds
\* LoadFeeds: every row of the feeds table, as Feed values.
LoadFeeds(rows) ==
    [i \in 1..Len(rows) |-> [ID |-> i, LastCheckedTime |-> rows[i]]]

\* updateFeeds starts: feeds, err := LoadFeeds(db).
Load ==
    /\ mainPc = "idle"
    /\ calls + Len(dbFeeds) <= MaxCalls
    /\ feeds' = LoadFeeds(dbFeeds)
    /\ next' = 1
    /\ mainPc' = "spawn"
    /\ UNCHANGED <<prs, srch, store, env, wg, unit, ret, calls, prevCall>>

\* As unitOf, but the goroutine shares the loop variable, which by then
\* holds the last feed of the slice.
unitOfCaptured(feed) ==
    [IdleUnit EXCEPT !.pc = "start", !.feed = feeds[Len(feeds)]]

\* What the goroutine of a feed starts with: a copy of the loop's feed value.
unitOf(feed) == [IdleUnit EXCEPT !.pc = "start", !.feed = feed]

\* As goReturns, but the unit is an ordinary call, as in the loop of the
\* revision before: the loop goes on when the unit before has returned.
goReturnsInTurn(units) == \A f \in Feeds : units[f].pc \in {"none", "done"}

\* The go statement returns at once, whatever the goroutines that were
\* started before it are doing.
goReturns(units) == TRUE

\* One iteration of the range loop: wg.Add(1); go func(feed Feed){...}(feed).
Spawn ==
    /\ mainPc = "spawn"
    /\ next <= Len(feeds)
    /\ goReturns(unit)
    /\ wg' = wg + 1
    /\ unit' = [unit EXCEPT ![feeds[next].ID] = unitOf(feeds[next])]
    /\ next' = next + 1
    /\ calls' = calls + 1
    /\ UNCHANGED <<prs, srch, store, env, mainPc, feeds, ret, prevCall>>

\* The range loop is over: wg.Wait().
EndSpawn ==
    /\ mainPc = "spawn"
    /\ next > Len(feeds)
    /\ mainPc' = "wait"
    /\ UNCHANGED <<prs, srch, store, env, feeds, next, ret, wg, unit, calls, prevCall>>

\* As waitOver, but without waiting.
waitOverAtOnce(counter) == TRUE

\* wg.Wait() returns when the counter is zero.
waitOver(counter) == counter = 0

\* wg.Wait() is over; log "All checks done"; return nil.
Wait ==
    /\ mainPc = "wait"
    /\ waitOver(wg)
    /\ mainPc' = "returned"
    /\ ret' = "nil"
    /\ UNCHANGED <<prs, srch, store, env, feeds, next, wg, unit, calls, prevCall>>

\* The process ends and the program is run again ("fetch" or "refresh").
NewRun ==
    /\ mainPc = "returned"
    /\ calls + Len(dbFeeds) <= MaxCalls
    /\ mainPc' = "idle"
    /\ feeds' = <<>>
    /\ next' = 1
    /\ unit' = [f \in Feeds |-> IdleUnit]
    /\ ret' = "unset"
    /\ UNCHANGED <<prs, srch, store, env, wg, calls, prevCall>>

\* ------------------------------------------------- one feed's goroutine
\* checkTime := time.Now()
UnitNow(f) ==
    /\ unit[f].pc = "start"
    /\ \E t \in Readings :
         /\ now' = t
         /\ unit' = [unit EXCEPT ![f].pc = "fetch", ![f].checkTime = t]
    /\ UNCHANGED <<prs, srch, store, main, faults, wg, calls, prevCall>>

\* As failedUnit, but the watermark of the Feed value is advanced first.
failedUnitAdvanced(u) ==
    [IdleUnit EXCEPT !.pc = "done", !.err = TRUE,
                     !.feed = [u.feed EXCEPT !.LastCheckedTime = u.checkTime]]

\* What a failed call leaves of the goroutine's locals: CheckNewArticles
\* returns (nil, err) and has written nothing, not even to the Feed value.
failedUnit(u) == [IdleUnit EXCEPT !.pc = "done", !.err = TRUE, !.feed = u.feed]

\* As wgDone, but the counter is left as it is.
wgDoneForgotten(counter) == counter

\* defer wg.Done(): the counter goes down by one when the goroutine returns.
wgDone(counter) == counter - 1

\* fp.ParseURLWithContext fails (network error, malformed document, or the
\* 30 s context expiring): CheckNewArticles returns (nil, err), the goroutine
\* logs the error and returns, and the deferred wg.Done() runs.
FetchFail(f) ==
    /\ unit[f].pc = "fetch"
    /\ unit' = [unit EXCEPT ![f] = failedUnit(unit[f])]
    /\ wg' = wgDone(wg)
    /\ UNCHANGED <<prs, srch, store, main, env, calls, prevCall>>

\* The fetch returns a document; the loop over its items builds the articles.
FetchOk(f) ==
    /\ unit[f].pc = "fetch"
    /\ \E doc \in Docs :
         unit' = [unit EXCEPT
                    ![f].pc = "save",
                    ![f].doc = doc,
                    ![f].newArticles =
                        newArticlesOf(doc, unit[f].feed, unit[f].checkTime)]
    /\ UNCHANGED <<prs, srch, store, main, env, wg, calls, prevCall>>

\* The history after a call of feed f fetched doc.
recorded(h, f, doc) ==
    IF h.on THEN [h EXCEPT !.of[f] = [ok |-> TRUE, doc |-> doc]] ELSE h

\* feed.LastCheckedTime = checkTime; db.Save(&feed); return articles, nil.
\* The result of db.Save is not looked at: when the write fails the row keeps
\* its old value and the call still returns the articles.  The fetched
\* document does not outlive the call.
SaveFeed(f) ==
    /\ unit[f].pc = "save"
    /\ LET feed == advancedFeed(unit[f].feed, unit[f].checkTime)
       IN  /\ unit' = [unit EXCEPT ![f].pc = "loop", ![f].feed = feed,
                                   ![f].k = 1, ![f].doc = <<>>]
           /\ \/ /\ dbFeeds' = dbSave(dbFeeds, feed)
                 /\ faults' = faults
              \/ /\ faults < MaxFaults
                 /\ dbFeeds' = dbFeeds
                 /\ faults' = faults + 1
    /\ prevCall' = recorded(prevCall, f, unit[f].doc)
    /\ UNCHANGED <<prs, srch, now, dbArticles, index, main, wg, calls>>

\* InitH is Init with the history of the fetched documents switched on.
InitH ==
    /\ now = 1
    /\ \E n \in 1..NumFeeds : dbFeeds = [f \in 1..n |-> 0]
    /\ dbArticles = <<>>
    /\ index = {}
    /\ mainPc = "idle"
    /\ feeds = <<>>
    /\ next = 1
    /\ wg = 0
    /\ unit = [f \in Feeds |-> IdleUnit]
    /\ ret = "unset"
    /\ calls = 0
    /\ faults = 0
    /\ prevCall = [on |-> TRUE, of |-> [f \in Feeds |-> [ok |-> FALSE, doc |-> <<>>]]]
    /\ NoSearch
    /\ NoParse

\* As createdRow, but the id of the row is not written to the article.
createdRowUnassigned(rows, article) == article

\* The row db.Create inserts for an article: the next id of the table.
createdRow(rows, article) == [article EXCEPT !.ID = Len(rows) + 1]

\* As uncreated, but a failed insert ends the loop over the new articles.
uncreatedAbort(u, article) ==
    [u EXCEPT !.pc = "loop", !.k = Len(u.newArticles) + 1]

\* The goroutine's locals after a db.Create that failed: nothing looks at the
\* failure, article.ID is still 0 and the article goes on to index.Index.
uncreated(u, article) == [u EXCEPT !.pc = "index", !.article = article]

\* article.Feed = feed; db.Create(&article): the row gets the next id, which
\* is written back into article.ID.  The result of db.Create is not looked
\* at: when the insert fails article.ID stays 0.
CreateArticle(f) ==
    /\ unit[f].pc = "loop"
    /\ unit[f].k <= Len(unit[f].newArticles)
    /\ LET article == [unit[f].newArticles[unit[f].k]
                          EXCEPT !.FeedID = unit[f].feed.ID]
       IN  \/ /\ dbArticles' = Append(dbArticles, createdRow(dbArticles, article))
              /\ unit' = [unit EXCEPT ![f].pc = "index",
                             ![f].article = createdRow(dbArticles, article)]
              /\ faults' = faults
           \/ /\ faults < MaxFaults
              /\ dbArticles' = dbArticles
              /\ unit' = [unit EXCEPT ![f] = uncreated(unit[f], article)]
              /\ faults' = faults + 1
    /\ UNCHANGED <<prs, srch, now, dbFeeds, index, main, wg, calls, prevCall>>

\* fmt.Sprint of a non-negative int below 100: its decimal digits.
Digits == <<"0", "1", "2", "3", "4", "5", "6", "7", "8", "9">>
Sprint(n) ==
    IF n < 10 THEN Digits[n + 1]
              ELSE Digits[(n \div 10) + 1] \o Digits[(n % 10) + 1]

\* index.Index(key, doc): the document stored under key is replaced.
indexPut(idx, key, doc) ==
    {d \in idx : d.key # key} \cup {[key |-> key, doc |-> doc]}

\* index.Index(fmt.Sprint(article.ID), article); newCount = newCount + 1
IndexArticle(f) ==
    /\ unit[f].pc = "index"
    /\ index' = indexPut(index, Sprint(unit[f].article.ID), unit[f].article)
    /\ unit' = [unit EXCEPT ![f].pc = "loop", ![f].k = unit[f].k + 1,
                            ![f].article = NoArticle]
    /\ UNCHANGED <<prs, srch, dbFeeds, dbArticles, main, env, wg, calls, prevCall>>

\* The loop over newArticles is over: the goroutine returns, its locals are
\* gone, and the deferred wg.Done() runs.
UnitDone(f) ==
    /\ unit[f].pc = "loop"
    /\ unit[f].k > Len(unit[f].newArticles)
    /\ unit' = [unit EXCEPT ![f] = [IdleUnit EXCEPT !.pc = "done"]]
    /\ wg' = wgDone(wg)
    /\ UNCHANGED <<prs, srch, store, main, env, calls, prevCall>>

Next ==
    \/ Load
    \/ Spawn
    \/ EndSpawn
    \/ Wait
    \/ NewRun
    \/ \E f \in Feeds : UnitNow(f)
    \/ \E f \in Feeds : FetchFail(f)
    \/ \E f \in Feeds : FetchOk(f)
    \/ \E f \in Feeds : SaveFeed(f)
    \/ \E f \in Feeds : CreateArticle(f)
    \/ \E f \in Feeds : IndexArticle(f)
    \/ \E f \in Feeds : UnitDone(f)

Spec == Init /\ [][Next]_vars

\* The same program, with the history of the fetched documents kept.
SpecH == InitH /\ [][Next]_vars

\* The steps of the goroutine of feed f.
UnitStep(f) ==
    \/ UnitNow(f)
    \/ FetchFail(f)
    \/ FetchOk(f)
    \/ SaveFeed(f)
    \/ CreateArticle(f)
    \/ IndexArticle(f)
    \/ UnitDone(f)

\* The program with its scheduling: a goroutine that can take a step takes
\* it in the end, the main goroutine as well as each feed's.  A fetch in
\* flight ends, with a document or with an error: the context of the call
\* expires after 30 s.  Nothing says that the program is ever run again.
Fairness ==
    /\ WF_vars(Spawn)
    /\ WF_vars(EndSpawn)
    /\ WF_vars(Wait)
    /\ \A f \in Feeds : WF_vars(UnitStep(f))

\* Init at a later hour: the clock has reached its last reading, so that
\* every call reads the same time.
InitLive ==
    /\ now = MaxTime
    /\ \E n \in 1..NumFeeds : dbFeeds = [f \in 1..n |-> 0]
    /\ dbArticles = <<>>
    /\ index = {}
    /\ mainPc = "idle"
    /\ feeds = <<>>
    /\ next = 1
    /\ wg = 0
    /\ unit = [f \in Feeds |-> IdleUnit]
    /\ ret = "unset"
    /\ calls = 0
    /\ faults = 0
    /\ prevCall = [on |-> FALSE, of |-> [f \in Feeds |-> [ok |-> FALSE, doc |-> <<>>]]]
    /\ NoSearch
    /\ NoParse

SpecLive == InitLive /\ [][Next]_vars /\ Fairness

\* ---------------------------------------------------------------- search
\* strconv.Atoi of an index key: the int whose digits the key is, or an error.
Atoi(s) ==
    IF \E n \in 0..99 : Sprint(n) = s
    THEN [ok |-> TRUE, n |-> CHOOSE n \in 0..99 : Sprint(n) = s]
    ELSE [ok |-> FALSE, n |-> 0]

\* Row i of the articles table when a search starts: an article that an
\* update stored from item d (published at 2) or item a (published at 1).
searchRow(i) ==
    LET item == IF i % 2 = 1 THEN Master[1] ELSE Master[4]
    IN  [ID |-> i, FeedID |-> 1, Title |-> item.title,
         Published |-> attemptTimeParse(dateFormats, item.published).t,
         Fetched |-> 1]

\* The index when a search starts.  Key "0" is the entry of an article whose
\* db.Create failed, a key above the last row is an entry whose row is gone,
\* and "x" is a key that is not a number.
searchIndex(rows) ==
    {[key |-> Sprint(i),
      doc |-> IF i \in 1..Len(rows) THEN rows[i] ELSE searchRow(i)]
        : i \in 0..MaxRows}
    \cup {[key |-> "x", doc |-> searchRow(1)]}

\* The program is started with "search <query>" on a database and an index
\* that earlier runs left.
InitSearch ==
    /\ now = 1
    /\ dbFeeds = [f \in 1..1 |-> 1]
    /\ \E n \in 0..MaxRows : dbArticles = [i \in 1..n |-> searchRow(i)]
    /\ index = searchIndex(dbArticles)
    /\ mainPc = "idle"
    /\ feeds = <<>>
    /\ next = 1
    /\ wg = 0
    /\ unit = [f \in Feeds |-> IdleUnit]
    /\ ret = "unset"
    /\ calls = 0
    /\ faults = 0
    /\ prevCall = [on |-> FALSE, of |-> [f \in Feeds |-> [ok |-> FALSE, doc |-> <<>>]]]
    /\ searchPc = "start"
    /\ searchResults = <<>>
    /\ hitNo = 0
    /\ sortedResults = <<>>
    /\ NoParse

update == <<dbFeeds, dbArticles, index, mainPc, feeds, next, wg, unit, ret,
            calls, faults, prevCall>>

\* What index.Search can return: hits (ID, Score) of different documents of
\* the index, the best score first.
HitLists(idx) ==
    LET Hit == [ID : {d.key : d \in idx}, Score : 1..MaxScore]
    IN  {hs \in UNION {[1..n -> Hit] : n \in 0..MaxHits} :
            \A i, j \in 1..Len(hs) :
                i < j => /\ hs[i].ID # hs[j].ID
                         /\ hs[i].Score >= hs[j].Score}

\* searchResults, _ := index.Search(searchRequest)
Search ==
    /\ searchPc = "start"
    /\ searchResults' \in HitLists(index)
    /\ hitNo' = 1
    /\ searchPc' = "hits"
    /\ UNCHANGED <<prs, update, now, sortedResults>>

\* db.First(&a, ID); return a, nil.  A row that exists is loaded.  When no
\* row has the id the error of db.First is dropped, and a is what the
\* library left in it: a new zero Article, or nil.
LoadArticle(rows, ID) ==
    IF ID \in 1..Len(rows)
    THEN {[nil |-> FALSE, a |-> rows[ID]]}
    ELSE {[nil |-> FALSE, a |-> NoArticle], [nil |-> TRUE, a |-> NoArticle]}

\* float64 values, in thousandths: a number, NaN or -Inf.
Num(m) == [k |-> "num", m |-> m]
NaN == [k |-> "nan", m |-> 0]
NegInf == [k |-> "-inf", m |-> 0]

\* time.Since(published).Hours() / 24 at clock reading t.  A unit of the
\* clock is twelve hours, and ages are counted in these half days, so that
\* ages between 0 and 1 day occur; the Duration since the zero time is the
\* largest Duration (106751 days).
ageOf(t, published) == IF published = 0 THEN 213503 ELSE t - published

\* 1 / -math.Log(age), for an age in half days: NaN for a negative age,
\* 1/+Inf = 0 for age 0, positive below one day, 1/-0 = -Inf for one day,
\* and negative above.
recip(age) ==
    CASE age < 0      -> NaN
      [] age = 0      -> Num(0)
      [] age = 1      -> Num(1443)
      [] age = 2      -> NegInf
      [] age = 3      -> Num(-2466)
      [] age = 4      -> Num(-1443)
      [] age = 5      -> Num(-1091)
      [] age = 6      -> Num(-910)
      [] age = 213503 -> Num(-86)

\* ws := score + recip
weightScore(score, age) ==
    LET r == recip(age)
    IN  IF r.k = "num" THEN Num(score * 1000 + r.m) ELSE r

\* x > y on float64
Greater(x, y) ==
    IF x.k = "nan" \/ y.k = "nan" THEN FALSE
    ELSE IF x.k = "-inf" THEN FALSE
    ELSE IF y.k = "-inf" THEN TRUE
    ELSE x.m > y.m

\* byWeightedScore.Less
Less(a, b) == Greater(a.weightedScore, b.weightedScore)

\* sort.Sort on fewer than 12 elements: an insertion sort.
Swap(s, i, j) == [s EXCEPT ![i] = s[j], ![j] = s[i]]

RECURSIVE sink(_, _)
sink(s, j) ==
    IF j > 1 /\ Less(s[j], s[j - 1]) THEN sink(Swap(s, j, j - 1), j - 1) ELSE s

RECURSIVE insertionSort(_, _)
insertionSort(s, i) ==
    IF i > Len(s) THEN s ELSE insertionSort(sink(s, i), i + 1)

\* One iteration of the loop over the hits: a key that is not a number is
\* passed over; otherwise the article is loaded and, as LoadArticle returns
\* no error, scored and appended.  article.Published on a nil article is a
\* nil pointer dereference.
HitStep ==
    /\ searchPc = "hits"
    /\ hitNo <= Len(searchResults)
    /\ LET hit == searchResults[hitNo]
           id  == Atoi(hit.ID)
       IN  IF ~id.ok
           THEN /\ hitNo' = hitNo + 1
                /\ UNCHANGED <<now, searchPc, sortedResults>>
           ELSE \E r \in LoadArticle(dbArticles, id.n) :
                    IF r.nil
                    THEN /\ searchPc' = "panic"
                         /\ UNCHANGED <<now, hitNo, sortedResults>>
                    ELSE \E t \in Readings :
                           /\ now' = t
                           /\ sortedResults' =
                                Append(sortedResults,
                                    [article |-> r.a,
                                     score |-> hit.Score,
                                     weightedScore |->
                                        weightScore(hit.Score,
                                                    ageOf(t, r.a.Published)),
                                     age |-> ageOf(t, r.a.Published)])
                           /\ hitNo' = hitNo + 1
                           /\ searchPc' = searchPc
    /\ UNCHANGED <<prs, update, searchResults>>

\* sort.Sort(byWeightedScore(sortedResults)); the list is logged; return nil.
SortResults ==
    /\ searchPc = "hits"
    /\ hitNo > Len(searchResults)
    /\ sortedResults' = insertionSort(sortedResults, 2)
    /\ searchPc' = "done"
    /\ UNCHANGED <<prs, update, now, searchResults, hitNo>>

NextSearch ==
    \/ Search
    \/ HitStep
    \/ SortResults

SpecSearch == InitSearch /\ [][NextSearch]_vars

\* ------------------------------------------------------- attemptTimeParse
\* The lists of layouts and the date strings a call can be given.
FormatLists == UNION {[1..n -> Layouts] : n \in 0..MaxFormats}
Inputs == [syntax : Syntaxes, t : Time]

\* A call attemptTimeParse(formats, input) is about to run.
InitParse ==
    /\ now = 1
    /\ dbFeeds = [f \in 1..1 |-> 0]
    /\ dbArticles = <<>>
    /\ index = {}
    /\ mainPc = "idle"
    /\ feeds = <<>>
    /\ next = 1
    /\ wg = 0
    /\ unit = [f \in Feeds |-> IdleUnit]
    /\ ret = "unset"
    /\ calls = 0
    /\ faults = 0
    /\ prevCall = [on |-> FALSE, of |-> [f \in Feeds |-> [ok |-> FALSE, doc |-> <<>>]]]
    /\ NoSearch
    /\ parsePc = "call"
    /\ formats \in FormatLists
    /\ input \in Inputs
    /\ parsedTime = [ok |-> FALSE, t |-> 0]

\* The call runs and returns.
Parse ==
    /\ parsePc = "call"
    /\ parsedTime' = attemptTimeParse(formats, input)
    /\ parsePc' = "returned"
    /\ UNCHANGED <<update, srch, now, formats, input>>

NextParse == Parse

SpecParse == InitParse /\ [][NextParse]_vars

\* ================================================================ claims
\* The feeds of the table; the calls that have gone through the fetched
\* items and are about to advance the watermark; the calls that returned.
Rows == DOMAIN dbFeeds
Fetched(f) == unit[f].pc = "save"
Returned(f) == unit[f].pc \in {"loop", "index"}
Failed(f) == unit[f].pc = "done" /\ unit[f].err

\* The watermark of feed f as it stood when the call started.
Watermark(f) == feeds[f].LastCheckedTime

Parsed(item) == attemptTimeParse(dateFormats, item.published)
HasBadDate(doc) == \E j \in 1..Len(doc) : ~Parsed(doc[j]).ok
Titles(articles) == [i \in 1..Len(articles) |-> articles[i].Title]
TitlesOfItems(items) == [i \in 1..Len(items) |-> items[i].title]

\* C1: when the fetch of a feed fails, the feed's LastCheckedTime is what it
\* was before the call, in the Feed value and in storage, and no article is
\* returned.
C1_FailedFetchKeepsWatermark ==
    \A f \in Rows :
        Failed(f) =>
            /\ unit[f].feed.LastCheckedTime = Watermark(f)
            /\ dbFeeds[f] = Watermark(f)
            /\ unit[f].newArticles = <<>>

\* A feed that was checked before fails to fetch.
C1_Witness ==
    \E f \in Rows : Failed(f) /\ Watermark(f) > 0

\* C2: after a call whose fetch succeeded, feed.LastCheckedTime is the
\* checkTime read before the fetch, however many items were new and however
\* many dates did not parse.
C2_SuccessSetsCheckTime ==
    \A f \in Rows :
        Returned(f) =>
            /\ unit[f].feed.LastCheckedTime = unit[f].checkTime
            /\ unit[f].checkTime <= now

\* A call that found no new item has returned and has advanced the watermark
\* of a feed that was checked before.
C2_Witness ==
    \E f \in Rows :
        /\ Returned(f)
        /\ unit[f].newArticles = <<>>
        /\ Watermark(f) > 0
        /\ unit[f].checkTime > Watermark(f)

\* C3: an item becomes a new Article only if its published time is strictly
\* after the watermark the call started with; an item published at or before
\* that watermark is left out.
C3_StrictlyAfterWatermark ==
    \A f \in Rows :
        /\ (Fetched(f) \/ Returned(f)) =>
               \A i \in 1..Len(unit[f].newArticles) :
                   unit[f].newArticles[i].Published > Watermark(f)
        /\ Fetched(f) =>
               \A j \in 1..Len(unit[f].doc) :
                   (Parsed(unit[f].doc[j]).ok
                      /\ Parsed(unit[f].doc[j]).t <= Watermark(f))
                   => \A i \in 1..Len(unit[f].newArticles) :
                          unit[f].newArticles[i].Title # unit[f].doc[j].title

\* An item published exactly at the watermark was fetched and left out.
C3_Witness ==
    \E f \in Rows :
        /\ Fetched(f)
        /\ \E j \in 1..Len(unit[f].doc) :
               /\ Parsed(unit[f].doc[j]).ok
               /\ Parsed(unit[f].doc[j]).t = Watermark(f)
        /\ unit[f].newArticles = <<>>

\* C4: (the claim) when no storage write has failed, a call that fetches the
\* same document as the call before it on the same feed returns no article,
\* and its checkTime is not before the watermark the call before it left.
C4_SecondCallFindsNothing ==
    \A f \in Rows :
        (/\ faults = 0
         /\ Fetched(f)
         /\ prevCall.of[f].ok
         /\ prevCall.of[f].doc = unit[f].doc)
        => /\ unit[f].newArticles = <<>>
           /\ unit[f].checkTime >= Watermark(f)

\* C5: the stored LastCheckedTime of a feed never decreases.
C5_StoredWatermarkMonotonic ==
    [][\A f \in Rows : dbFeeds'[f] >= dbFeeds[f]]_vars

\* The stored watermark of a feed was advanced in a second call.
C5_Witness ==
    \E f \in Rows :
        /\ unit[f].pc \in {"loop", "index", "done"}
        /\ Watermark(f) > 0
        /\ dbFeeds[f] > Watermark(f)

\* C6: a feed whose fetch failed keeps its stored watermark and its failure
\* changes nothing of storage, of the index or of another feed's unit; while
\* no storage write fails, every other feed's watermark is advanced to its
\* checkTime and each of its new items handled so far is stored under it.
StoredFor(f, article) ==
    \E r \in 1..Len(dbArticles) :
        /\ dbArticles[r].FeedID = f
        /\ dbArticles[r].Title = article.Title
        /\ dbArticles[r].Published = article.Published
        /\ dbArticles[r].Fetched = unit[f].checkTime

C6_State ==
    \A f \in Rows :
        /\ Failed(f) => dbFeeds[f] = Watermark(f)
        /\ (Returned(f) /\ faults = 0) =>
               /\ dbFeeds[f] = unit[f].checkTime
               /\ \A i \in 1..Len(unit[f].newArticles) :
                      (i < unit[f].k \/ (i = unit[f].k /\ unit[f].pc = "index"))
                      => StoredFor(f, unit[f].newArticles[i])

C6_Step ==
    \A f \in Rows :
        (~unit[f].err /\ unit'[f].err) =>
            /\ store' = store
            /\ \A g \in Rows \ {f} : unit'[g] = unit[g]

C6_FailuresAreIsolated == [](C6_State) /\ [][C6_Step]_vars

\* One feed has failed while another has stored a new item and has its
\* watermark advanced.
C6_Witness ==
    \E f, g \in Rows :
        /\ Failed(f)
        /\ Returned(g)
        /\ unit[g].k > 1
        /\ faults = 0
        /\ dbFeeds[g] > dbFeeds[f]

\* C7: when updateFeeds has returned, every unit it started has finished.
C7_ReturnsAfterAllUnits ==
    mainPc = "returned" => \A f \in Rows : unit[f].pc = "done"

\* updateFeeds has returned after two units, one of which stored and indexed
\* an article.
C7_Witness ==
    /\ mainPc = "returned"
    /\ Len(feeds) = 2
    /\ dbArticles # <<>>
    /\ index # {}

\* C8: when a fetched document has items whose date does not parse, exactly
\* those are skipped: the call has kept the other items that are after the
\* watermark, in their order, and it goes on to return them and to advance
\* the watermark to checkTime.
C8_State ==
    \A f \in Rows :
        (Fetched(f) /\ HasBadDate(unit[f].doc)) =>
            Titles(unit[f].newArticles) =
                TitlesOfItems(SelectSeq(unit[f].doc,
                    LAMBDA item : Parsed(item).ok
                                  /\ Parsed(item).t > Watermark(f)))

C8_Step ==
    \A f \in Rows :
        (Fetched(f) /\ HasBadDate(unit[f].doc) /\ unit'[f] # unit[f]) =>
            /\ unit'[f].pc = "loop"
            /\ ~unit'[f].err
            /\ unit'[f].newArticles = unit[f].newArticles
            /\ unit'[f].feed.LastCheckedTime = unit[f].checkTime

Found(hit) == Atoi(hit.ID).ok /\ Atoi(hit.ID).n \in 1..Len(dbArticles)

\* C9: (the claim) when a search has gone through its hits, no entry of the
\* ranked output is for an id that storage does not hold, and every hit whose
\* article storage holds is in the output.
C9_StaleHitsAreSkipped ==
    searchPc = "done" =>
        /\ \A i \in 1..Len(sortedResults) :
               sortedResults[i].article.ID \in 1..Len(dbArticles)
        /\ \A j \in 1..Len(searchResults) :
               Found(searchResults[j]) =>
                   \E i \in 1..Len(sortedResults) :
                       sortedResults[i].article.ID = Atoi(searchResults[j].ID).n

\* What the value updateFeeds returned says about the feeds: nil says
\* nothing, an error would stand for the run.
reportedFailures(r) == IF r = "nil" THEN {} ELSE Rows

\* C10: (the claim) when updateFeeds has returned, what it returned reports
\* the failure of every feed that failed.
C10_FailuresAreReturned ==
    mainPc = "returned" =>
        \A f \in Rows : unit[f].err => f \in reportedFailures(ret)

\* C11: (the claim) a step in which a storage write fails (the db.Save of the
\* watermark or the db.Create of an article) leaves an error with the unit
\* that made the write, for its caller to see.
C11_StorageFailuresSurface ==
    [][faults' > faults => \E f \in Rows : ~unit[f].err /\ unit'[f].err]_vars

\* C17: (the claim) while the stored watermark of a feed is already the
\* checkTime of the running call, every article the call found is stored.
C17_ArticlesBeforeWatermark ==
    \A f \in Rows :
        (Returned(f) /\ dbFeeds[f] = unit[f].checkTime) =>
            \A i \in 1..Len(unit[f].newArticles) :
                StoredFor(f, unit[f].newArticles[i])

\* C18: (the claim) while no storage write has failed, no item of a feed is
\* stored as an article twice.
C18_AtMostOnce ==
    faults = 0 =>
        \A r, q \in 1..Len(dbArticles) :
            (dbArticles[r].FeedID = dbArticles[q].FeedID
               /\ dbArticles[r].Title = dbArticles[q].Title) => r = q

\* C19: (the claim) when updateFeeds has returned, every item that the last
\* successful call of a feed fetched and that is after the watermark the run
\* started with is stored, or the stored watermark is still before it.
C19_NoItemLost ==
    mainPc = "returned" =>
        \A f \in Rows :
            prevCall.of[f].ok =>
                \A j \in 1..Len(prevCall.of[f].doc) :
                    LET item == prevCall.of[f].doc[j]
                    IN  (Parsed(item).ok /\ Parsed(item).t > Watermark(f)) =>
                            \/ \E r \in 1..Len(dbArticles) :
                                   /\ dbArticles[r].FeedID = f
                                   /\ dbArticles[r].Title = item.title
                            \/ dbFeeds[f] < Parsed(item).t

\* The search has scored every hit and is about to sort.
Scored == searchPc = "hits" /\ hitNo > Len(searchResults)

\* The orders in which the index could have returned the same hits: the
\* rearrangements of the scored hits that keep the best score first.
Rearranged(s) ==
    {[i \in 1..Len(s) |-> s[p[i]]] :
        p \in {q \in [1..Len(s) -> 1..Len(s)] :
                 /\ \A i, j \in 1..Len(s) : q[i] = q[j] => i = j
                 /\ \A i, j \in 1..Len(s) :
                        i < j => s[q[i]].score >= s[q[j]].score}}

\* C12: (the claim) when every hit of a search is for a stored article and
\* has a finite weighted score, the ranked output does not depend on the
\* order in which the index returned the hits.
C12_TiesIgnoreHitOrder ==
    (/\ Scored
     /\ \A i \in 1..Len(sortedResults) :
            /\ sortedResults[i].article.ID # 0
            /\ sortedResults[i].weightedScore.k = "num")
    => \A alt \in Rearranged(sortedResults) :
           insertionSort(alt, 2) = insertionSort(sortedResults, 2)

\* C13: (the claim) the age of every scored hit is above 0 and is not one
\* day, and its weighted score is a finite number.
C13_AgeIsClamped ==
    \A i \in 1..Len(sortedResults) :
        /\ sortedResults[i].age > 0
        /\ sortedResults[i].age # 2
        /\ sortedResults[i].weightedScore.k = "num"

\* C14: (the claim) of two scored hits the younger one has at least the boost
\* of the older one, and in the ranked output, of two hits with the same
\* score, the one ranked first is not the older one.
C14_BoostFavorsFreshness ==
    /\ \A i, j \in 1..Len(sortedResults) :
           sortedResults[i].age < sortedResults[j].age =>
               ~Greater(recip(sortedResults[j].age), recip(sortedResults[i].age))
    /\ searchPc = "done" =>
           \A i, j \in 1..Len(sortedResults) :
               (i < j /\ sortedResults[i].score = sortedResults[j].score)
               => sortedResults[i].age <= sortedResults[j].age

\* The positions of the layouts of the call that parse its input.
Parsing == {i \in 1..Len(formats) : timeParse(formats[i], input).ok}

\* C15: attemptTimeParse returns the time of the first layout of the list
\* that parses the input, and an error exactly when no layout parses it.
C15_FirstFormatWins ==
    parsePc = "returned" =>
        /\ parsedTime.ok <=> Parsing # {}
        /\ Parsing # {} =>
               parsedTime =
                   timeParse(formats[CHOOSE i \in Parsing :
                                         \A j \in Parsing : i <= j], input)
        /\ Parsing = {} => parsedTime.t = 0

\* A call has returned the time of the first of two layouts that both parse
\* the input, to different times.
C15_Witness ==
    /\ parsePc = "returned"
    /\ \E i, j \in Parsing :
           /\ i < j
           /\ timeParse(formats[i], input).t # timeParse(formats[j], input).t
           /\ parsedTime.t = timeParse(formats[i], input).t

\* C16: an error of an update run (a date that does not parse, a failed
\* fetch, a failed storage write) ends nothing but, for a failed fetch, the
\* unit it happened in: every unit that has started and has not finished can
\* take its next step, the step of the error changes no other unit and is
\* not the end of updateFeeds, and after a failed insert the unit goes on
\* with the same articles.
C16_State ==
    \A f \in Rows :
        unit[f].pc \notin {"none", "done"} => ENABLED UnitStep(f)

C16_Step ==
    \A f \in Rows :
        ((~unit[f].err /\ unit'[f].err) \/ (faults' > faults /\ unit'[f] # unit[f]))
        => /\ \A g \in Rows \ {f} : unit'[g] = unit[g]
           /\ main' = main
           /\ (faults' > faults /\ unit[f].pc = "loop") =>
                  /\ unit'[f].pc = "index"
                  /\ unit'[f].k = unit[f].k
                  /\ unit'[f].newArticles = unit[f].newArticles

C16_NoErrorIsFatal == [](C16_State) /\ [][C16_Step]_vars

\* One unit has failed its fetch and an insert of another has failed, and
\* that other unit is going on while updateFeeds waits.
C16_Witness ==
    \E f, g \in Rows :
        /\ Failed(f)
        /\ unit[g].pc = "index"
        /\ unit[g].article.ID = 0
        /\ mainPc = "wait"

\* C20: an article that is about to be handed to the index, or is in the
\* index, has been handed to storage first and the storage call has returned:
\* it carries the id of its row, or, when the insert failed, id 0.
C20_StoreBeforeIndex ==
    /\ \A f \in Rows :
           unit[f].pc = "index" =>
               \/ unit[f].article.ID = 0 /\ faults > 0
               \/ /\ unit[f].article.ID \in 1..Len(dbArticles)
                  /\ dbArticles[unit[f].article.ID] = unit[f].article
    /\ \A d \in index :
           \/ d.doc.ID = 0 /\ faults > 0
           \/ /\ d.doc.ID \in 1..Len(dbArticles)
              /\ dbArticles[d.doc.ID] = d.doc
              /\ d.key = Sprint(d.doc.ID)

\* Two articles have been stored and indexed under the ids of their rows.
C20_Witness ==
    \E d, e \in index :
        /\ d.doc.ID = 1
        /\ e.doc.ID = 2

\* C21: (the claim) every entry of the index is under the id of an article
\* that storage holds, which is the article of the entry, and no two
\* articles were indexed under one key: the articles handed to the index
\* under a key, so far, are one article.
C21_IndexKeyIsStorageId ==
    /\ \A d \in index :
           /\ Atoi(d.key).ok
           /\ Atoi(d.key).n \in 1..Len(dbArticles)
           /\ dbArticles[Atoi(d.key).n] = d.doc
    /\ \A f \in Rows :
           unit[f].pc = "index" =>
               \A d \in index :
                   d.key = Sprint(unit[f].article.ID) => d.doc = unit[f].article

\* The unit of feed f is running: its goroutine has started and not returned.
Running(f) == unit[f].pc \in {"start", "fetch", "save", "loop", "index"}

\* C22: each unit works on its own copy of the feed it was started for.  In
\* every interleaving the Feed value of the running unit of f is that of f
\* and the article it is about to index is owned by f; a step of the unit of
\* f changes the stored watermark of no other feed, sets that of f to nothing
\* but the unit's checkTime, and every article row it adds is owned by f.
C22_State ==
    \A f \in Rows :
        /\ Running(f) => unit[f].feed.ID = f
        /\ unit[f].pc = "index" => unit[f].article.FeedID = f

C22_Step ==
    \A f \in Rows :
        (Running(f) /\ unit'[f] # unit[f]) =>
            /\ \A g \in Rows \ {f} : dbFeeds'[g] = dbFeeds[g]
            /\ dbFeeds'[f] \in {dbFeeds[f], unit[f].checkTime}
            /\ \A r \in (Len(dbArticles) + 1)..Len(dbArticles') :
                   dbArticles'[r].FeedID = f
            /\ SubSeq(dbArticles', 1, Len(dbArticles)) = dbArticles

C22_UnitOwnsItsFeed == [](C22_State) /\ [][C22_Step]_vars

\* Two units are running at once; each has advanced the watermark of its
\* own feed, to different times, and has stored an article under its feed.
C22_Witness ==
    \E f, g \in Rows :
        /\ f # g
        /\ Returned(f) /\ Returned(g)
        /\ dbFeeds[f] = unit[f].checkTime
        /\ dbFeeds[g] = unit[g].checkTime
        /\ dbFeeds[f] # dbFeeds[g]
        /\ \E r, q \in 1..Len(dbArticles) :
               dbArticles[r].FeedID = f /\ dbArticles[q].FeedID = g

\* C23: updateFeeds always terminates.  Every exit path of a unit signals its
\* completion exactly once, so the WaitGroup counter is the number of units
\* that are running; every unit that was started finishes, also when its
\* fetch never gets an answer (the call then fails at the timeout); and
\* updateFeeds, once it has loaded the feeds, returns.
C23_UpdateFeedsTerminates ==
    /\ [](wg = Cardinality({f \in Feeds : Running(f)}))
    /\ \A f \in Feeds : (unit[f].pc = "start") ~> (unit[f].pc = "done")
    /\ (mainPc = "spawn") ~> (mainPc = "returned")

\* updateFeeds has returned after a run of two units, one of which ended
\* with a failed fetch (an error or the timeout) and one with a stored
\* article.
C23_Witness ==
    /\ mainPc = "returned"
    /\ wg = 0
    /\ Len(feeds) = 2
    /\ \E f \in Rows : Failed(f)
    /\ dbArticles # <<>>

\* x >= y on float64
GreaterOrEqual(x, y) ==
    IF x.k = "nan" \/ y.k = "nan" THEN FALSE
    ELSE IF y.k = "-inf" THEN TRUE
    ELSE IF x.k = "-inf" THEN FALSE
    ELSE x.m >= y.m

\* The hits of the search whose key is a number.
Numeric == {j \in 1..Len(searchResults) : Atoi(searchResults[j].ID).ok}

\* C24: (the claim) when storage holds the article of every hit whose key is
\* a number, the output of the search has exactly one entry for each of
\* these hits, and the weighted score of each entry is greater than or equal
\* to that of the entry after it.
C24_OutputIsSortedPermutation ==
    (searchPc = "done" /\ \A j \in Numeric : Found(searchResults[j])) =>
        /\ Len(sortedResults) = Cardinality(Numeric)
        /\ \A j \in Numeric :
               Cardinality({i \in 1..Len(sortedResults) :
                   sortedResults[i].article.ID = Atoi(searchResults[j].ID).n}) = 1
        /\ \A i \in 1..(Len(sortedResults) - 1) :
               GreaterOrEqual(sortedResults[i].weightedScore,
                              sortedResults[i + 1].weightedScore)

\* C25: the units of different feeds have no ordering dependency.  The loop
\* that starts the units never waits for a unit it has started, and of two
\* units that are running at the same time each can take its next step
\* whatever the other is doing, so that either can be the first to finish.
C25_NoOrderingDependency ==
    /\ (mainPc = "spawn" /\ next <= Len(feeds)) => ENABLED Spawn
    /\ \A f, g \in Rows :
           (f # g /\ Running(f) /\ Running(g)) =>
               /\ ENABLED UnitStep(f)
               /\ unit[f].pc = "fetch" =>
                      ENABLED FetchOk(f) /\ ENABLED FetchFail(f)

\* The fetches of two feeds are in flight at the same time.
C25_Witness ==
    \E f, g \in Rows :
        /\ f # g
        /\ unit[f].pc = "fetch"
        /\ unit[g].pc = "fetch"

====
